---- MODULE Spec2Model ----
(***************************************************************************)
(* Model of the task-watch engine of wiro-cli (internal/task): the         *)
(* coordinator Service.WatchTask, its polling goroutine, its websocket     *)
(* goroutine, the one-shot gate signalFinal and the two channels           *)
(* finalTaskCh (capacity 1) and errCh (capacity 2).                        *)
(*                                                                         *)
(* Each goroutine is a program counter; one action is one step between two *)
(* suspension points of the code.  The remote service, the websocket peer  *)
(* and the caller's cancellation are the environment: their outcomes are   *)
(* drawn with \E from small sets.                                          *)
(*                                                                         *)
(* Beside the watch (Spec, FairSpec) the module holds three smaller        *)
(* machines over variables of their own: the websocket frame codec and     *)
(* ReadText (CodecSpec), dialWS and Close (SessionSpec), and the auth      *)
(* service's BuildHeaders over its credential store (AuthSpec).            *)
(***************************************************************************)
EXTENDS Integers, Sequences, FiniteSets

VARIABLES
    taskToken,    \* WatchTask's taskToken argument
    ctxDone,      \* ctx.Done() is closed
    coordPc,      \* WatchTask itself: "start", "running", "returned"
    ret,          \* what WatchTask returned: [task, err]
    finalTaskCh,  \* chan *api.Task, capacity 1
    errCh,        \* chan error, capacity 2
    onceDone,     \* sync.Once: done flag
    onceM,        \* sync.Once: holder of its mutex ("none", "poll", "ws")
    pollPc,       \* polling goroutine
    pollTask,     \* the poller's local `task` (status of detail.TaskList[0])
    pollQCtx,     \* ctx was already done when the poller's Detail call began
    ticks,        \* ticker.C receives so far
    wsPc,         \* websocket goroutine
    wsTask,       \* the stream goroutine's local `task`
    wsErr,        \* the error the stream goroutine is about to send
    wsQCtx,       \* ctx was already done when the stream's Detail call began
    connOpen,     \* the wsConn's connection is open
    frames,       \* ReadText calls that have returned so far
    events,       \* the observer's log: every onEvent invocation, in order
    lastCheck,    \* history: the last isTerminal call, argument and result
    finalSent,    \* history: sends on finalTaskCh so far
    finalBy,      \* history: which goroutine wrote finalTaskCh
    pollSawTerminal, \* history: the poller fetched a task isTerminal accepts
    pollFetch,    \* history: how the poller's last Detail call ended
    wsFetch,      \* history: how the stream goroutine's last Detail call ended
    lastRead,     \* history: how the last ReadText call of the stream ended
    dials,        \* history: dialWS calls of the stream goroutine so far
    cancelledIdle, \* history: ctx was cancelled with both producers idle
    emitted,      \* history: what each producer has emitted so far, in its order
    wsSent,       \* history: the messages the stream goroutine wrote to the socket
    \* -- the frame codec and ReadText, on their own (CodecSpec) --
    cPc,          \* "idle", "written", "decoded", "readtext"
    wIn,          \* writeFrame's arguments: opcode, payload, mask
    wire,         \* the bytes writeFrame produced / readFrame was given
    rOut,         \* what readFrame returned
    inbound,      \* what the peer has sent and ReadText has not read yet
    outbound,     \* the frames ReadText has written to the connection
    rtPc,         \* ReadText: "idle", "loop", "pong", "returned"
    rtRet,        \* what ReadText returned: [data, err]
    \* -- dialWS and Close, on their own (SessionSpec) --
    dPc,          \* dialWS: "idle", "tcp", "tls", "key", "write", "status",
                  \*         "headers", "accept", "returned"; "literal" for wsConn{}
    dScheme,      \* u.Scheme
    dKey,         \* the key wsKey drew
    dStatus,      \* the status line read
    dHeaders,     \* the header lines read
    dConn,        \* rawConn: "none", "open", "closed"
    dErr,         \* the error dialWS returned, "nil" for none
    sess,         \* the *wsConn at hand: "unset", "nil", "noconn", "conn"
    closeCalls,   \* history: Close calls made on it
    closeRet,     \* what the last Close returned
    \* -- auth.Service and its credential store, on their own (AuthSpec) --
    aBearer,      \* the store's bearer token, "" when there is none
    aSecrets,     \* the store's project secrets by API key, "" when there is none
    aProject,     \* the argument of the last BuildHeaders call
    aResult       \* what it returned: [mode, headers, err]

vars == <<taskToken, ctxDone, coordPc, ret, finalTaskCh, errCh, onceDone, onceM,
          pollPc, pollTask, pollQCtx, ticks, wsPc, wsTask, wsErr, wsQCtx,
          connOpen, frames, events, lastCheck, finalSent, finalBy,
          pollSawTerminal, pollFetch, wsFetch, lastRead, dials, cancelledIdle,
          emitted, wsSent,
          cPc, wIn, wire, rOut, inbound, outbound, rtPc, rtRet,
          dPc, dScheme, dKey, dStatus, dHeaders, dConn, dErr, sess, closeCalls, closeRet,
          aBearer, aSecrets, aProject, aResult>>

(***************************************************************************)
(* Bounds of the model.                                                    *)
(***************************************************************************)
MaxTicks == 2     \* ticker ticks the poller consumes in one watch
MaxFrames == 1    \* ReadText results the stream goroutine consumes

(***************************************************************************)
(* Program constants.                                                      *)
(***************************************************************************)
FinalChCap == 1
ErrChCap == 2

NoTask == "nil"
NoErr == "nil"
CtxErr == "ctx.Err"
TokenErr == "task token is required for watch"
QueryErr == "detail failed"
ConnectErr == "websocket connect failed (polling fallback active)"
RegisterErr == "websocket register failed"
ReadErr == "websocket read failed (polling fallback active)"
NoRet == [task |-> NoTask, err |-> "pending"]
NoCheck == [status |-> "none", terminal |-> FALSE]

Tokens == {"", " ", "tok"}

\* A slip: comparing with "" without trimming.
IsBlankUntrimmed(t) == t = ""

\* strings.TrimSpace(taskToken) == ""
IsBlank(t) == t \in {"", " "}

\* Task statuses the Detail endpoint reports to the poller.
Statuses == {"task_start", "task_postprocess_end", "task_cancel", "task_end",
             "task_error_full"}
\* Types of the messages the socket pushes; "" is a message without a string
\* type field (typeVal, _ := msg["type"].(string)).
WsTypes == {"", "task_end"}
\* Task statuses the Detail endpoint reports to the stream goroutine.
WsFetchStatuses == {"task_start", "task_postprocess_end"}

(***************************************************************************)
(* isTerminal, service_test.go:69-76.                                      *)
(***************************************************************************)
isTerminalNoEnd(status) ==
    status \in {"task_postprocess_end", "task_cancel", "task_error_full"}

isTerminal(status) ==
    status \in {"task_postprocess_end", "task_cancel", "task_end", "task_error_full"}

(***************************************************************************)
(* Service.Detail as seen by a producer: an error, an empty TaskList, or a *)
(* TaskList whose first row has some status.  A request that starts on a   *)
(* context that is already done fails (http.NewRequestWithContext).        *)
(***************************************************************************)
ErrRes == [kind |-> "err", status |-> ""]
EmptyRes == [kind |-> "empty", status |-> ""]
TaskRes(S) == {[kind |-> "task", status |-> s] : s \in S}

Detail(ctxAtStart, S) ==
    IF ctxAtStart THEN {ErrRes} ELSE {ErrRes, EmptyRes} \cup TaskRes(S)

Event(src, typ, txt, who) == [source |-> src, type |-> typ, text |-> txt, by |-> who]

\* 229: the event the coordinator makes of an error it took from errCh
Warning(err) == Event("system", "warning", err, "coord")

\* A slip: a subscribe message without the token.
RegisterNoToken(token) == [type |-> "task_info", tasktoken |-> ""]

\* 185: register := map[string]string{"type": "task_info", "tasktoken": taskToken}
Register(token) == [type |-> "task_info", tasktoken |-> token]

(***************************************************************************)
(* Bytes.  A payload is kept as its length and the four bytes it repeats:  *)
(* byte i (from 0) is pat[(i % 4) + 1].  Masking XORs byte i with          *)
(* mask[i % 4], so these payloads are closed under it, and a length can    *)
(* reach the 32 MiB ceiling of readFrame.  Header bytes are kept one by    *)
(* one.                                                                    *)
(***************************************************************************)
Zero4 == <<0, 0, 0, 0>>
Bytes(n, pat) == [len |-> n, pat |-> [k \in 1..4 |-> IF k <= n THEN pat[k] ELSE 0]]
NoBytes == Bytes(0, Zero4)

RECURSIVE XorBits(_, _, _)
XorBits(a, b, n) ==
    IF n = 0 THEN 0
    ELSE (((a % 2) + (b % 2)) % 2) + 2 * XorBits(a \div 2, b \div 2, n - 1)

\* a ^ b on bytes
Xor(a, b) == XorBits(a, b, 8)

\* 416-418 and 468-470: payload[i] ^ mask[i%4] for every i
XorBytes(p, key) == Bytes(p.len, [k \in 1..4 |-> Xor(p.pat[k], key[k])])

\* the first n bytes of b
Take(b, n) == Bytes(n, b.pat)

\* What is on the connection for one frame: the header bytes and what
\* follows them.
Wire(head, body) == [head |-> head, body |-> body]
NoWire == Wire(<<>>, NoBytes)

\* 459: the ceiling of readFrame, 32*1024*1024
MaxPayload == 32 * 1024 * 1024

(***************************************************************************)
(* writeFrame, service_test.go:389-425.                                    *)
(***************************************************************************)
\* A slip: <= 126 for the 7-bit tier.
LenBytesOffByOne(n) ==
    IF n <= 126 THEN <<128 + n>>
    ELSE IF n <= 65535 THEN <<128 + 126, n \div 256, n % 256>>
    ELSE <<128 + 127, 0, 0, 0, 0, (n \div 16777216) % 256, (n \div 65536) % 256,
           (n \div 256) % 256, n % 256>>

\* 393-407: the second header byte, mask bit set, and the extended length,
\* big-endian (PutUint16, PutUint64).
LenBytes(n) ==
    IF n < 126 THEN <<128 + n>>
    ELSE IF n <= 65535 THEN <<128 + 126, n \div 256, n % 256>>
    ELSE <<128 + 127, 0, 0, 0, 0, (n \div 16777216) % 256, (n \div 65536) % 256,
           (n \div 256) % 256, n % 256>>

\* A slip: the first byte without 0x80.
writeFrameNoFin(opcode, payload, mask) ==
    Wire(<<opcode % 16>> \o LenBytes(payload.len) \o mask,
         XorBytes(payload, mask))

\* 390-424: 0x80|(opcode&0x0F), the length, the mask key, the masked payload.
writeFrame(opcode, payload, mask) ==
    Wire(<<128 + (opcode % 16)>> \o LenBytes(payload.len) \o mask,
         XorBytes(payload, mask))

(***************************************************************************)
(* readFrame, service_test.go:427-473.                                     *)
(***************************************************************************)
\* 434-449: int64 of the declared length.  The 64-bit value is kept as its
\* sign, whether it is 2^31 or more, and its low 31 bits (the model
\* checker's integers are 32 bits wide).
DeclaredLength(l7, ext) ==
    IF l7 = 126 THEN [neg |-> FALSE, huge |-> FALSE, val |-> ext[1] * 256 + ext[2]]
    ELSE IF l7 = 127
      THEN [neg |-> ext[1] >= 128,
            huge |-> ext[1] < 128 /\ (ext[1] + ext[2] + ext[3] + ext[4] > 0 \/ ext[5] >= 128),
            val |-> (ext[5] % 128) * 16777216 + ext[6] * 65536 + ext[7] * 256 + ext[8]]
      ELSE [neg |-> FALSE, huge |-> FALSE, val |-> l7]

\* A slip: >= for the ceiling.
TooLargeAtCeiling(L) == L.neg \/ L.huge \/ L.val >= MaxPayload

\* 459: length < 0 || length > 32*1024*1024
TooLarge(L) == L.neg \/ L.huge \/ L.val > MaxPayload

\* readFrame's return: the error, the opcode, the payload, and for the
\* record the size of the buffer it allocated and the payload bytes it read.
FrameErr(e, alloc, read) ==
    [err |-> e, opcode |-> 0, payload |-> NoBytes, alloc |-> alloc, read |-> read]
NoFrame == FrameErr("none", 0, 0)

readFrame(w) ==
    LET H == w.head
        l7 == H[2] % 128
        extN == IF l7 = 126 THEN 2 ELSE IF l7 = 127 THEN 8 ELSE 0
        keyN == IF H[2] >= 128 THEN 4 ELSE 0
        L == DeclaredLength(l7, SubSeq(H, 3, 2 + extN))
        key == SubSeq(H, 3 + extN, 2 + extN + keyN)
        data == Take(w.body, L.val)
    IN  IF Len(H) < 2 THEN FrameErr("EOF", 0, 0)
        ELSE IF Len(H) < 2 + extN THEN FrameErr("EOF", 0, 0)
        ELSE IF Len(H) < 2 + extN + keyN THEN FrameErr("EOF", 0, 0)
        ELSE IF TooLarge(L) THEN FrameErr("websocket payload too large", 0, 0)
        ELSE IF w.body.len < L.val THEN FrameErr("EOF", L.val, w.body.len)
        ELSE [err |-> "nil", opcode |-> H[1] % 16,
              payload |-> IF keyN = 4 THEN XorBytes(data, key) ELSE data,
              alloc |-> L.val, read |-> L.val]

(***************************************************************************)
(* wsConn.ReadText, service_test.go:366-387.                               *)
(***************************************************************************)
\* A slip: returning binary frames (0x2) like text frames.
FrameActionBinaryToo(opcode) ==
    IF opcode \in {1, 2} THEN "return"
    ELSE IF opcode = 8 THEN "eof"
    ELSE IF opcode = 9 THEN "pong"
    ELSE "skip"

\* 372-385: the switch on the opcode.
FrameAction(opcode) ==
    IF opcode = 1 THEN "return"
    ELSE IF opcode = 8 THEN "eof"
    ELSE IF opcode = 9 THEN "pong"
    ELSE "skip"

\* A slip: a pong without the ping's payload.
PongPayloadEmpty(payload) == NoBytes

\* 378: w.writeFrame(0xA, payload)
PongPayload(payload) == payload

NoWrite == [opcode |-> 0, payload |-> NoBytes, mask |-> Zero4]
NoData == [data |-> NoBytes, err |-> "pending"]

CodecIdle ==
    /\ cPc = "idle"
    /\ wIn = NoWrite
    /\ wire = NoWire
    /\ rOut = NoFrame
    /\ inbound = <<>>
    /\ outbound = <<>>
    /\ rtPc = "idle"
    /\ rtRet = NoData

(***************************************************************************)
(* dialWS, service_test.go:252-336, wsKey, wsAccept and Close.             *)
(***************************************************************************)
\* 338-344: base64 of 16 random bytes; two of them
Keys == {"a2V5LW9uZS0wMDAwMDAwMA==", "a2V5LXR3by0wMDAwMDAwMA=="}

\* 346-349: base64(SHA-1(key + GUID)).  The digest is kept symbolic: one
\* value per key, different from the key and from the other digests.
wsAccept(key) == "b64sha1:" \o key \o "258EAFA5-E914-47DA-95CA-C5AB0DC85B11"

\* strings.Contains on a line kept character by character
Contains(line, sub) ==
    \E i \in 1..(Len(line) - Len(sub) + 1) : SubSeq(line, i, i + Len(sub) - 1) = sub

\* 307: strings.Contains(statusLine, "101")
StatusAccepted(line) == Contains(line, <<"1", "0", "1">>)

\* 325: strings.ToLower(strings.TrimSpace(parts[0])) on the names used here
HeaderKey(name) ==
    IF name \in {"Sec-WebSocket-Accept", " SEC-WEBSOCKET-ACCEPT ", "sec-websocket-accept"}
      THEN "sec-websocket-accept"
    ELSE IF name = "Upgrade" THEN "upgrade"
    ELSE name

\* 312-327: the map the header loop builds, read at key k; a line without a
\* colon sets nothing, a later line overwrites an earlier one, and a key
\* never set reads as "".
RECURSIVE HeaderValue(_, _)
HeaderValue(hs, k) ==
    IF hs = <<>> THEN ""
    ELSE LET last == hs[Len(hs)]
         IN  IF last.colon /\ HeaderKey(last.name) = k THEN last.value
             ELSE HeaderValue(SubSeq(hs, 1, Len(hs) - 1), k)

\* 329-330: got != "" && got != expectedAccept
AcceptRefused(hs, key) ==
    LET got == HeaderValue(hs, "sec-websocket-accept")
    IN  got # "" /\ got # wsAccept(key)

SessIdle ==
    /\ dPc = "idle"
    /\ dScheme = ""
    /\ dKey = ""
    /\ dStatus = <<>>
    /\ dHeaders = <<>>
    /\ dConn = "none"
    /\ dErr = "nil"
    /\ sess = "unset"
    /\ closeCalls = 0
    /\ closeRet = "none"

(***************************************************************************)
(* auth.Service.BuildHeaders, internal/auth/service.go:180-240, over the   *)
(* credential store the service keeps (service.go:130-172).                *)
(***************************************************************************)
\* project.APIKey values, and what is kept in the store
APIKeys == {"", " ", "p-key", "q-key"}
SecretValues == {"", " ", "p-secret"}
TokenValues == {"", " ", "bearer-token"}
\* project.AuthMethodHint values
Hints == {"", "unknown", "signature", " Signature ", "apikey-only", "bearer"}

\* strings.TrimSpace on the strings used here
TrimSpace(str) ==
    IF str = " " THEN "" ELSE IF str = " Signature " THEN "Signature" ELSE str
\* strings.ToLower on the strings used here
ToLower(str) == IF str = "Signature" THEN "signature" ELSE str

NoProject == [APIKey |-> "", AuthMethodHint |-> "", nil |-> TRUE]
Project(key, hint) == [APIKey |-> key, AuthMethodHint |-> hint, nil |-> FALSE]
Projects == {NoProject} \cup {Project(k, h) : k \in APIKeys, h \in Hints}

HeaderResult(mode, headers) == [mode |-> mode, headers |-> headers, err |-> "nil"]
HeaderError(err) == [mode |-> "", headers |-> {}, err |-> err]
NoResult == [mode |-> "", headers |-> {}, err |-> "not called"]

\* 186, 202, 220
BearerResult(bearer) == HeaderResult("bearer", {<<"Authorization", "Bearer " \o bearer>>})
\* 212, 223
APIKeyResult(apiKey) == HeaderResult("apikey-only", {<<"x-api-key", apiKey>>})

\* 243-247: lower-hex HMAC-SHA256(apiSecret+nonce, key=apiKey), kept symbolic
ComputeSignature(apiKey, apiSecret, nonce) ==
    "hmac-sha256(" \o apiKey \o "," \o apiSecret \o nonce \o ")"

\* 228-240: the secret the store has for the key (GetProjectSecret fails when
\* it has none), the blank checks, and the three headers
trySignature(apiKey, secrets) ==
    LET secret == secrets[apiKey]
    IN  IF secret = "" \/ TrimSpace(secret) = "" \/ TrimSpace(apiKey) = ""
          THEN [ok |-> FALSE, result |-> NoResult]
          ELSE [ok |-> TRUE,
                result |-> HeaderResult("signature",
                              {<<"x-api-key", apiKey>>, <<"x-nonce", "nonce">>,
                               <<"x-signature", ComputeSignature(apiKey, secret, "nonce")>>})]

\* A slip: the API key tried before the account token.
FallbackKeyFirst(apiKey, bearer, secrets) ==
    IF trySignature(apiKey, secrets).ok THEN trySignature(apiKey, secrets).result
    ELSE IF TrimSpace(apiKey) # "" THEN APIKeyResult(apiKey)
    ELSE IF bearer # "" THEN BearerResult(bearer)
    ELSE HeaderError("no usable auth material found for selected project")

\* 215-225: signature -> bearer -> api-key
Fallback(apiKey, bearer, secrets) ==
    IF trySignature(apiKey, secrets).ok THEN trySignature(apiKey, secrets).result
    ELSE IF bearer # "" THEN BearerResult(bearer)
    ELSE IF TrimSpace(apiKey) # "" THEN APIKeyResult(apiKey)
    ELSE HeaderError("no usable auth material found for selected project")

\* 181-226
BuildHeaders(project, bearer, secrets) ==
    IF project.nil
      THEN IF bearer # "" THEN BearerResult(bearer)
           ELSE HeaderError("no project selected and no account token available")
      ELSE LET trimmed == ToLower(TrimSpace(project.AuthMethodHint))
               hint == IF trimmed = "" THEN "unknown" ELSE trimmed
               sig == trySignature(project.APIKey, secrets)
           IN  IF hint \in {"signature", "unknown"} /\ sig.ok THEN sig.result
               ELSE IF hint = "signature"
                 THEN IF bearer # "" THEN BearerResult(bearer)
                      ELSE HeaderError("requires signature auth but api secret is missing")
               ELSE IF hint = "apikey-only"
                 THEN IF TrimSpace(project.APIKey) = ""
                        THEN HeaderError("project api key is empty")
                        ELSE APIKeyResult(project.APIKey)
               ELSE Fallback(project.APIKey, bearer, secrets)

AuthIdle ==
    /\ aBearer = ""
    /\ aSecrets = [k \in APIKeys |-> ""]
    /\ aProject = NoProject
    /\ aResult = NoResult

Init ==
    /\ taskToken \in Tokens
    /\ ctxDone = FALSE
    /\ coordPc = "start"
    /\ ret = NoRet
    /\ finalTaskCh = <<>>
    /\ errCh = <<>>
    /\ onceDone = FALSE
    /\ onceM = "none"
    /\ pollPc = "idle"
    /\ pollTask = NoTask
    /\ pollQCtx = FALSE
    /\ ticks = 0
    /\ wsPc = "idle"
    /\ wsTask = NoTask
    /\ wsErr = NoErr
    /\ wsQCtx = FALSE
    /\ connOpen = FALSE
    /\ frames = 0
    /\ events = <<>>
    /\ lastCheck = NoCheck
    /\ finalSent = 0
    /\ finalBy = "none"
    /\ pollSawTerminal = FALSE
    /\ pollFetch = "none"
    /\ wsFetch = "none"
    /\ lastRead = "none"
    /\ dials = 0
    /\ cancelledIdle = FALSE
    /\ emitted = [poll |-> <<>>, ws |-> <<>>]
    /\ wsSent = <<>>
    /\ CodecIdle
    /\ SessIdle
    /\ AuthIdle

coordVars == <<coordPc, ret>>
onceVars == <<onceDone, onceM>>
pollVars == <<pollPc, pollTask, pollQCtx, ticks, pollSawTerminal>>
wsVars == <<wsPc, wsTask, wsErr, wsQCtx, connOpen, frames>>
histVars == <<lastCheck, finalSent, finalBy>>
opVars == <<pollFetch, wsFetch, lastRead, dials>>
codecVars == <<cPc, wIn, wire, rOut, inbound, outbound, rtPc, rtRet>>
\* What the watch leaves alone.
sessVars == <<dPc, dScheme, dKey, dStatus, dHeaders, dConn, dErr, sess, closeCalls, closeRet>>
authVars == <<aBearer, aSecrets, aProject, aResult>>
offWatch == <<codecVars, sessVars, authVars>>

\* producer p hands e to the observer (166, 208) or to errCh (158, 180, 187, 194)
Emit(p, e) == [emitted EXCEPT ![p] = Append(@, e)]

(***************************************************************************)
(* The caller cancels the context (or its deadline passes).                *)
(***************************************************************************)
Cancel ==
    /\ ~ctxDone
    /\ ctxDone' = TRUE
    /\ cancelledIdle' = (coordPc = "running" /\ wsPc = "read" /\ pollPc = "select")
    /\ UNCHANGED <<opVars, taskToken, coordVars, finalTaskCh, errCh, onceVars, pollVars,
                   wsVars, events, histVars>>
    /\ UNCHANGED <<emitted, wsSent>>
    /\ UNCHANGED offWatch

(***************************************************************************)
(* WatchTask, service_test.go:130-233.                                     *)
(***************************************************************************)
\* 131-133: the token check, before anything is created.
StartRejected ==
    /\ coordPc = "start"
    /\ IsBlank(taskToken)
    /\ coordPc' = "returned"
    /\ ret' = [task |-> NoTask, err |-> TokenErr]
    /\ UNCHANGED <<opVars, taskToken, ctxDone, finalTaskCh, errCh, onceVars, pollVars,
                   wsVars, events, histVars, cancelledIdle>>
    /\ UNCHANGED <<emitted, wsSent>>
    /\ UNCHANGED offWatch

\* 134-219: channels, the gate, and the two go statements.
StartWatch ==
    /\ coordPc = "start"
    /\ ~IsBlank(taskToken)
    /\ coordPc' = "running"
    /\ pollPc' = "select"
    /\ wsPc' = "dial"
    /\ UNCHANGED <<opVars, taskToken, ctxDone, ret, finalTaskCh, errCh, onceVars, pollTask,
                   pollQCtx, ticks, pollSawTerminal, wsTask, wsErr, wsQCtx,
                   connOpen, frames, events, histVars, cancelledIdle>>
    /\ UNCHANGED <<emitted, wsSent>>
    /\ UNCHANGED offWatch

\* 223-224: case <-ctx.Done(): return nil, ctx.Err()
CoordCancelled ==
    /\ coordPc = "running"
    /\ ctxDone
    /\ coordPc' = "returned"
    /\ ret' = [task |-> NoTask, err |-> CtxErr]
    /\ UNCHANGED <<opVars, taskToken, ctxDone, finalTaskCh, errCh, onceVars, pollVars,
                   wsVars, events, histVars, cancelledIdle>>
    /\ UNCHANGED <<emitted, wsSent>>
    /\ UNCHANGED offWatch

\* A slip: the receive branch returning the context's error with the task.
CoordRecvFinalWithCtxErr ==
    /\ coordPc = "running"
    /\ Len(finalTaskCh) > 0
    /\ coordPc' = "returned"
    /\ ret' = [task |-> Head(finalTaskCh), err |-> IF ctxDone THEN CtxErr ELSE NoErr]
    /\ finalTaskCh' = Tail(finalTaskCh)
    /\ UNCHANGED <<opVars, taskToken, ctxDone, errCh, onceVars, pollVars,
                   wsVars, events, histVars, cancelledIdle>>
    /\ UNCHANGED <<emitted, wsSent>>
    /\ UNCHANGED offWatch

\* 225-226: case task := <-finalTaskCh: return task, nil
CoordRecvFinal ==
    /\ coordPc = "running"
    /\ Len(finalTaskCh) > 0
    /\ coordPc' = "returned"
    /\ ret' = [task |-> Head(finalTaskCh), err |-> NoErr]
    /\ finalTaskCh' = Tail(finalTaskCh)
    /\ UNCHANGED <<opVars, taskToken, ctxDone, errCh, onceVars, pollVars,
                   wsVars, events, histVars, cancelledIdle>>
    /\ UNCHANGED <<emitted, wsSent>>
    /\ UNCHANGED offWatch

\* A slip: treating an error from errCh as fatal (return nil, err).
CoordRecvErrFatal ==
    /\ coordPc = "running"
    /\ Len(errCh) > 0
    /\ errCh' = Tail(errCh)
    /\ coordPc' = "returned"
    /\ ret' = [task |-> NoTask, err |-> Head(errCh)]
    /\ UNCHANGED <<opVars, taskToken, ctxDone, finalTaskCh, onceVars, pollVars,
                   wsVars, events, histVars, cancelledIdle>>
    /\ UNCHANGED <<emitted, wsSent>>
    /\ UNCHANGED offWatch

\* 227-230: case err := <-errCh: onEvent(system/warning); loop again.
CoordRecvErr ==
    /\ coordPc = "running"
    /\ Len(errCh) > 0
    /\ errCh' = Tail(errCh)
    /\ events' = Append(events, Event("system", "warning", Head(errCh), "coord"))
    /\ UNCHANGED <<opVars, taskToken, ctxDone, coordVars, finalTaskCh, onceVars, pollVars,
                   wsVars, histVars, cancelledIdle>>
    /\ UNCHANGED <<emitted, wsSent>>
    /\ UNCHANGED offWatch

(***************************************************************************)
(* signalFinal, service_test.go:138-145: a nil check, then sync.Once.Do    *)
(* around the send.  Once.Do returns at once when the done flag is set;    *)
(* otherwise it takes the Once's mutex, runs the function and sets the     *)
(* flag before it releases the mutex.  A second caller arriving while the  *)
(* first is inside waits on the mutex.                                     *)
(***************************************************************************)
\* 139-141: if task == nil { return }
SignalFinalIgnores(task) == task = NoTask

\* Once.Do finds the flag set and does not call the function.
OnceSkips(done) == done

\* A slip: a plain boolean checked before the send, with no mutual exclusion.
OnceUnlocked(done, m) == FALSE

\* Once.Do has to wait: another caller holds the mutex.
OnceBlocked(done, m) == ~done /\ m # "none"

(***************************************************************************)
(* The polling goroutine, service_test.go:148-174.                         *)
(***************************************************************************)
\* A slip: forgetting signalFinal before the return at 168-171.
PollAfterTaskNoDeliver(status) == IF isTerminal(status) THEN "exited" ELSE "select"

\* A slip: delivering and leaving on any row, terminal or not.
PollAfterTaskAlways(status) == "once"

\* 168-171: if isTerminal(task.Status) { signalFinal(&task); return }
PollAfterTask(status) == IF isTerminal(status) THEN "once" ELSE "select"

\* A slip: return instead of continue after a failed query.
PollAfterErrReturns == "exited"

\* 158-159: errCh <- err; continue
PollAfterErr == "select"

\* 153-154: case <-ctx.Done(): return
PollCtxDone ==
    /\ pollPc = "select"
    /\ ctxDone
    /\ pollPc' = "exited"
    /\ UNCHANGED <<opVars, taskToken, ctxDone, coordVars, finalTaskCh, errCh, onceVars,
                   pollTask, pollQCtx, ticks, pollSawTerminal, wsVars, events,
                   histVars, cancelledIdle>>
    /\ UNCHANGED <<emitted, wsSent>>
    /\ UNCHANGED offWatch

\* 155-156: case <-ticker.C: the Detail request goes out.
PollTick ==
    /\ pollPc = "select"
    /\ ticks < MaxTicks
    /\ ticks' = ticks + 1
    /\ pollQCtx' = ctxDone
    /\ pollPc' = "query"
    /\ UNCHANGED <<opVars, taskToken, ctxDone, coordVars, finalTaskCh, errCh, onceVars,
                   pollTask, pollSawTerminal, wsVars, events, histVars, cancelledIdle>>
    /\ UNCHANGED <<emitted, wsSent>>
    /\ UNCHANGED offWatch

\* 156-171: Detail returns; error, empty list, or a row that is reported
\* to the observer and classified.
PollDetail ==
    /\ pollPc = "query"
    /\ \E r \in Detail(pollQCtx, Statuses) :
        /\ pollFetch' = r.kind
        /\ \/ /\ r.kind = "err"
              /\ pollPc' = "sendErr"
              /\ UNCHANGED <<pollTask, pollSawTerminal, events, lastCheck, emitted>>
           \/ /\ r.kind = "empty"
              /\ pollPc' = "select"
              /\ UNCHANGED <<pollTask, pollSawTerminal, events, lastCheck, emitted>>
           \/ /\ r.kind = "task"
              /\ pollTask' = r.status
              /\ events' = Append(events, Event("poll", r.status, "polled status", "poll"))
              /\ emitted' = Emit("poll", Event("poll", r.status, "polled status", "poll"))
              /\ lastCheck' = [status |-> r.status, terminal |-> isTerminal(r.status)]
              /\ pollSawTerminal' = isTerminal(r.status)
              /\ pollPc' = PollAfterTask(r.status)
    /\ UNCHANGED <<wsFetch, lastRead, dials, taskToken, ctxDone, coordVars, finalTaskCh,
                   errCh, onceVars, pollQCtx, ticks, wsVars, finalSent, finalBy, cancelledIdle>>
    /\ UNCHANGED wsSent
    /\ UNCHANGED offWatch

\* 158: errCh <- err, a blocking send on the capacity-2 channel.
PollSendErr ==
    /\ pollPc = "sendErr"
    /\ Len(errCh) < ErrChCap
    /\ errCh' = Append(errCh, QueryErr)
    /\ emitted' = Emit("poll", Warning(QueryErr))
    /\ pollPc' = PollAfterErr
    /\ UNCHANGED <<opVars, taskToken, ctxDone, coordVars, finalTaskCh, onceVars,
                   pollTask, pollQCtx, ticks, pollSawTerminal, wsVars, events,
                   histVars, cancelledIdle>>
    /\ UNCHANGED wsSent
    /\ UNCHANGED offWatch

\* 169: signalFinal(&task), entering once.Do; 170: return.
PollOnce ==
    /\ pollPc = "once"
    /\ ~OnceBlocked(onceDone, onceM)
    /\ IF SignalFinalIgnores(pollTask) \/ OnceSkips(onceDone)
          THEN pollPc' = "exited" /\ UNCHANGED onceM
          ELSE pollPc' = "sendFinal" /\ onceM' = "poll"
    /\ UNCHANGED <<opVars, taskToken, ctxDone, coordVars, finalTaskCh, errCh, onceDone,
                   pollTask, pollQCtx, ticks, pollSawTerminal, wsVars, events,
                   histVars, cancelledIdle>>
    /\ UNCHANGED <<emitted, wsSent>>
    /\ UNCHANGED offWatch

\* 143: finalTaskCh <- task inside once.Do; 170: return.
PollSendFinal ==
    /\ pollPc = "sendFinal"
    /\ Len(finalTaskCh) < FinalChCap
    /\ finalTaskCh' = Append(finalTaskCh, pollTask)
    /\ onceDone' = TRUE
    /\ onceM' = "none"
    /\ finalSent' = finalSent + 1
    /\ finalBy' = "poll"
    /\ pollPc' = "exited"
    /\ UNCHANGED <<opVars, taskToken, ctxDone, coordVars, errCh, pollTask, pollQCtx, ticks,
                   pollSawTerminal, wsVars, events, lastCheck, cancelledIdle>>
    /\ UNCHANGED <<emitted, wsSent>>
    /\ UNCHANGED offWatch

(***************************************************************************)
(* The websocket goroutine, service_test.go:177-219.                       *)
(***************************************************************************)
\* What ends a ReadText call with an error: an I/O failure or a close frame
\* (io.EOF), and readFrame's "websocket payload too large".
ReadFailures == {"io", "toolarge"}

\* A slip: dialling again after a failure instead of returning.
WsAfterErrRedials == "dial"

\* 181, 188, 195: return, after the errCh send; the goroutine is over.
WsAfterErr == "exited"

\* A slip: asking again when the query failed or found nothing.
WsAfterFetchRetries(kind) == IF kind = "task" THEN "once" ELSE "query"

\* 212-216: if err == nil && len(detail.TaskList) > 0 { ...; signalFinal(&task);
\* return }, and otherwise on to the next turn of the read loop
WsAfterFetch(kind) == IF kind = "task" THEN "once" ELSE "read"

\* 178-182: dialWS; DialContext fails on a context that is already done.
WsDial ==
    /\ wsPc = "dial"
    /\ dials' = dials + 1
    /\ \E ok \in (IF ctxDone THEN {FALSE} ELSE BOOLEAN) :
        IF ok
          THEN /\ connOpen' = TRUE
               /\ wsPc' = "register"
               /\ UNCHANGED wsErr
          ELSE /\ wsErr' = ConnectErr
               /\ wsPc' = "sendErr"
               /\ UNCHANGED connOpen
    /\ UNCHANGED <<pollFetch, wsFetch, lastRead, taskToken, ctxDone, coordVars, finalTaskCh,
                   errCh, onceVars, pollVars, wsTask, wsQCtx, frames, events,
                   lastCheck, finalSent, finalBy, cancelledIdle>>
    /\ UNCHANGED <<emitted, wsSent>>
    /\ UNCHANGED offWatch

\* 185-189: conn.WriteJSON(register)
WsRegister ==
    /\ wsPc = "register"
    /\ \E ok \in BOOLEAN :
        IF ok
          THEN /\ wsPc' = "read"
               /\ wsSent' = Append(wsSent, Register(taskToken))
               /\ UNCHANGED wsErr
          ELSE /\ wsErr' = RegisterErr
               /\ wsPc' = "sendErr"
               /\ UNCHANGED wsSent
    /\ UNCHANGED <<opVars, taskToken, ctxDone, coordVars, finalTaskCh, errCh, onceVars,
                   pollVars, wsTask, wsQCtx, connOpen, frames, events, lastCheck,
                   finalSent, finalBy, cancelledIdle>>
    /\ UNCHANGED emitted
    /\ UNCHANGED offWatch

\* 192-217: ReadText returns: an error (a close frame included), a text
\* that is not JSON, or a JSON object with some type.
WsRead ==
    /\ wsPc = "read"
    /\ frames < MaxFrames
    /\ frames' = frames + 1
    /\ \/ \E cause \in ReadFailures :
          /\ lastRead' = cause
          /\ wsErr' = ReadErr
          /\ wsPc' = "sendErr"
          /\ UNCHANGED <<events, lastCheck, wsQCtx, emitted>>
       \/ /\ lastRead' = "badjson"
          /\ UNCHANGED <<wsErr, wsPc, events, lastCheck, wsQCtx, emitted>>
       \/ \E t \in WsTypes :
          /\ lastRead' = "msg"
          /\ events' = Append(events, Event("ws", t, "", "ws"))
          /\ emitted' = Emit("ws", Event("ws", t, "", "ws"))
          /\ lastCheck' = [status |-> t, terminal |-> isTerminal(t)]
          /\ wsPc' = IF isTerminal(t) THEN "query" ELSE "read"
          /\ wsQCtx' = IF isTerminal(t) THEN ctxDone ELSE wsQCtx
          /\ UNCHANGED wsErr
    /\ UNCHANGED <<pollFetch, wsFetch, dials, taskToken, ctxDone, coordVars, finalTaskCh,
                   errCh, onceVars, pollVars, wsTask, connOpen, finalSent, finalBy,
                   cancelledIdle>>
    /\ UNCHANGED wsSent
    /\ UNCHANGED offWatch

\* 211-216: the authoritative Detail after a terminal type; a failure or an
\* empty list falls through to the next ReadText without a word.
WsDetail ==
    /\ wsPc = "query"
    /\ \E r \in Detail(wsQCtx, WsFetchStatuses) :
        /\ wsFetch' = r.kind
        /\ wsPc' = WsAfterFetch(r.kind)
        /\ \/ /\ r.kind = "err"
              /\ UNCHANGED wsTask
           \/ /\ r.kind = "empty"
              /\ UNCHANGED wsTask
           \/ /\ r.kind = "task"
              /\ wsTask' = r.status
    /\ UNCHANGED <<pollFetch, lastRead, dials, taskToken, ctxDone, coordVars,
                   finalTaskCh, errCh, onceVars, pollVars, wsErr, wsQCtx, connOpen, frames, events,
                   lastCheck, finalSent, finalBy, cancelledIdle>>
    /\ UNCHANGED <<emitted, wsSent>>
    /\ UNCHANGED offWatch

\* 214: signalFinal(&task), entering once.Do; 215: return, 183: conn.Close().
WsOnce ==
    /\ wsPc = "once"
    /\ ~OnceBlocked(onceDone, onceM)
    /\ IF SignalFinalIgnores(wsTask) \/ OnceSkips(onceDone)
          THEN wsPc' = "exited" /\ connOpen' = FALSE /\ UNCHANGED onceM
          ELSE wsPc' = "sendFinal" /\ onceM' = "ws" /\ UNCHANGED connOpen
    /\ UNCHANGED <<opVars, taskToken, ctxDone, coordVars, finalTaskCh, errCh, onceDone,
                   pollVars, wsTask, wsErr, wsQCtx, frames, events, histVars,
                   cancelledIdle>>
    /\ UNCHANGED <<emitted, wsSent>>
    /\ UNCHANGED offWatch

\* 143: finalTaskCh <- task inside once.Do; 215: return, 183: conn.Close().
WsSendFinal ==
    /\ wsPc = "sendFinal"
    /\ Len(finalTaskCh) < FinalChCap
    /\ finalTaskCh' = Append(finalTaskCh, wsTask)
    /\ onceDone' = TRUE
    /\ onceM' = "none"
    /\ finalSent' = finalSent + 1
    /\ finalBy' = "ws"
    /\ wsPc' = "exited"
    /\ connOpen' = FALSE
    /\ UNCHANGED <<opVars, taskToken, ctxDone, coordVars, errCh, pollVars, wsTask, wsErr,
                   wsQCtx, frames, events, lastCheck, cancelledIdle>>
    /\ UNCHANGED <<emitted, wsSent>>
    /\ UNCHANGED offWatch

\* 180, 187, 194: errCh <- fmt.Errorf(...), a blocking send; then return,
\* and the deferred conn.Close() when the dial had succeeded.
WsSendErr ==
    /\ wsPc = "sendErr"
    /\ Len(errCh) < ErrChCap
    /\ errCh' = Append(errCh, wsErr)
    /\ emitted' = Emit("ws", Warning(wsErr))
    /\ wsPc' = WsAfterErr
    /\ connOpen' = FALSE
    /\ UNCHANGED <<opVars, taskToken, ctxDone, coordVars, finalTaskCh, onceVars, pollVars,
                   wsTask, wsErr, wsQCtx, frames, events, histVars, cancelledIdle>>
    /\ UNCHANGED wsSent
    /\ UNCHANGED offWatch

Next ==
    \/ Cancel
    \/ StartRejected
    \/ StartWatch
    \/ CoordCancelled
    \/ CoordRecvFinal
    \/ CoordRecvErr
    \/ PollCtxDone
    \/ PollTick
    \/ PollDetail
    \/ PollSendErr
    \/ PollOnce
    \/ PollSendFinal
    \/ WsDial
    \/ WsRegister
    \/ WsRead
    \/ WsDetail
    \/ WsOnce
    \/ WsSendFinal
    \/ WsSendErr

Spec == Init /\ [][Next]_vars

(***************************************************************************)
(* Scheduling: the Go runtime runs every runnable goroutine, a select with *)
(* a ready case proceeds (a case that is ready again and again is chosen   *)
(* sooner or later), the ticker keeps ticking, and a call that went out    *)
(* (dial, write, HTTP round trip) returns.  What the peer sends on the     *)
(* socket (WsRead) and whether the caller cancels (Cancel) are not         *)
(* scheduled by the program and get no fairness.                           *)
(***************************************************************************)
Fairness ==
    /\ WF_vars(StartRejected)
    /\ WF_vars(StartWatch)
    /\ WF_vars(CoordCancelled)
    /\ WF_vars(CoordRecvFinal)
    /\ WF_vars(CoordRecvErr)
    /\ SF_vars(PollCtxDone)
    /\ WF_vars(PollTick)
    /\ WF_vars(PollDetail)
    /\ WF_vars(PollSendErr)
    /\ WF_vars(PollOnce)
    /\ WF_vars(PollSendFinal)
    /\ WF_vars(WsDial)
    /\ WF_vars(WsRegister)
    /\ WF_vars(WsDetail)
    /\ WF_vars(WsOnce)
    /\ WF_vars(WsSendFinal)
    /\ WF_vars(WsSendErr)

FairSpec == Spec /\ Fairness

(***************************************************************************)
(* The frame codec on its own: writeFrame and readFrame applied to chosen  *)
(* arguments, and ReadText run over frames a peer sent.  The watch does    *)
(* not move here.                                                          *)
(***************************************************************************)
watchVars == <<taskToken, ctxDone, coordPc, ret, finalTaskCh, errCh, onceDone, onceM,
               pollPc, pollTask, pollQCtx, ticks, wsPc, wsTask, wsErr, wsQCtx,
               connOpen, frames, events, lastCheck, finalSent, finalBy,
               pollSawTerminal, pollFetch, wsFetch, lastRead, dials, cancelledIdle,
               emitted, wsSent>>

\* What the codec leaves alone.
offCodec == <<watchVars, sessVars, authVars>>

\* how many frames the peer sends to one ReadText call
MaxInbound == 2

Opcodes == 0..15
Pats == {<<1, 2, 3, 4>>, <<255, 0, 170, 85>>}
Masks == {Zero4, <<1, 2, 3, 4>>, <<255, 128, 7, 90>>}
\* the length tiers of 393-407 at their edges, and the ceiling of 459
PayloadLens == {0, 1, 125, 126, 127, 65535, 65536, MaxPayload, MaxPayload + 1}
Payloads == {Bytes(n, pat) : n \in PayloadLens, pat \in Pats}

\* What a server sends: unmasked frames, one masked one, ...
ServerFrame(opcode, payload) ==
    Wire(<<128 + opcode>> \o
         (IF payload.len < 126 THEN <<payload.len>>
          ELSE <<126, payload.len \div 256, payload.len % 256>>),
         payload)
PeerPayloads == {NoBytes, Bytes(5, <<104, 105, 33, 10>>), Bytes(126, <<123, 34, 34, 125>>)}
PlainFrames == {ServerFrame(op, pl) : op \in {1, 2, 8, 9, 10}, pl \in PeerPayloads}
               \cup {writeFrame(9, Bytes(5, <<104, 105, 33, 10>>), <<1, 2, 3, 4>>)}
\* ... headers declaring 64-bit lengths around and above the ceiling, with
\* what follows the header on the connection, ...
Ext32MiB == <<0, 0, 0, 0, 2, 0, 0, 0>>
DeclaringFrames ==
    { Wire(<<129, 127>> \o Ext32MiB, Bytes(MaxPayload, <<1, 2, 3, 4>>)),
      Wire(<<129, 127>> \o Ext32MiB, Bytes(3, <<1, 2, 3, 4>>)),
      Wire(<<129, 127, 0, 0, 0, 0, 1, 255, 255, 255>>, Bytes(MaxPayload - 1, <<1, 2, 3, 4>>)),
      Wire(<<129, 127, 0, 0, 0, 0, 2, 0, 0, 1>>, Bytes(MaxPayload + 1, <<1, 2, 3, 4>>)),
      Wire(<<129, 127, 0, 0, 0, 0, 128, 0, 0, 0>>, Bytes(5, <<1, 2, 3, 4>>)),
      Wire(<<129, 127, 0, 0, 0, 1, 0, 0, 0, 0>>, Bytes(5, <<1, 2, 3, 4>>)),
      Wire(<<129, 127, 128, 0, 0, 0, 0, 0, 0, 0>>, Bytes(5, <<1, 2, 3, 4>>)),
      Wire(<<129, 127, 255, 255, 255, 255, 255, 255, 255, 255>>, Bytes(5, <<1, 2, 3, 4>>)),
      Wire(<<129, 255, 128, 0, 0, 0, 0, 0, 0, 0, 9, 9, 9, 9>>, Bytes(5, <<1, 2, 3, 4>>)) }
\* ... and a connection that ends inside a header or inside a payload.
CutFrames ==
    { NoWire, Wire(<<129>>, NoBytes), Wire(<<129, 126, 0>>, NoBytes),
      Wire(<<129, 5>>, Bytes(2, <<104, 105, 33, 10>>)) }
PeerFrames == PlainFrames \cup DeclaringFrames \cup CutFrames

SeqsUpTo(S, n) == UNION {[1..k -> S] : k \in 0..n}

CodecInit == Init /\ taskToken = "tok"

\* writeFrame(opcode, payload) with the mask rand.Read drew (410-413)
WriteFrameCall ==
    /\ cPc = "idle"
    /\ \E opcode \in Opcodes, payload \in Payloads, mask \in Masks :
         /\ wIn' = [opcode |-> opcode, payload |-> payload, mask |-> mask]
         /\ wire' = writeFrame(opcode, payload, mask)
    /\ cPc' = "written"
    /\ UNCHANGED <<rOut, inbound, outbound, rtPc, rtRet, offCodec>>

\* readFrame on the bytes writeFrame produced
ReadBack ==
    /\ cPc = "written"
    /\ rOut' = readFrame(wire)
    /\ cPc' = "decoded"
    /\ UNCHANGED <<wIn, wire, inbound, outbound, rtPc, rtRet, offCodec>>

\* 366: ReadText is called; the peer sends these frames
ReadTextCall ==
    /\ cPc = "idle"
    /\ \E fs \in SeqsUpTo(PeerFrames, MaxInbound) : inbound' = fs
    /\ cPc' = "readtext"
    /\ rtPc' = "loop"
    /\ UNCHANGED <<wIn, wire, rOut, outbound, rtRet, offCodec>>

\* 367-385: one turn of the loop, readFrame and the switch on its opcode
RTReadFrame ==
    /\ rtPc = "loop"
    /\ inbound # <<>>
    /\ LET r == readFrame(Head(inbound))
       IN  /\ wire' = Head(inbound)
           /\ inbound' = Tail(inbound)
           /\ rOut' = r
           /\ IF r.err # "nil"
                THEN rtPc' = "returned" /\ rtRet' = [data |-> NoBytes, err |-> r.err]
              ELSE IF FrameAction(r.opcode) = "return"
                THEN rtPc' = "returned" /\ rtRet' = [data |-> r.payload, err |-> "nil"]
              ELSE IF FrameAction(r.opcode) = "eof"
                THEN rtPc' = "returned" /\ rtRet' = [data |-> NoBytes, err |-> "EOF"]
              ELSE IF FrameAction(r.opcode) = "pong"
                THEN rtPc' = "pong" /\ rtRet' = rtRet
              ELSE rtPc' = "loop" /\ rtRet' = rtRet
    /\ UNCHANGED <<cPc, wIn, outbound, offCodec>>

\* 378-380: the pong; writeFrame's error is ReadText's
RTWritePong ==
    /\ rtPc = "pong"
    /\ \/ /\ \E mask \in Masks :
               outbound' = Append(outbound, writeFrame(10, PongPayload(rOut.payload), mask))
          /\ rtPc' = "loop"
          /\ rtRet' = rtRet
       \/ /\ outbound' = outbound
          /\ rtPc' = "returned"
          /\ rtRet' = [data |-> NoBytes, err |-> "write"]
    /\ UNCHANGED <<cPc, wIn, wire, rOut, inbound, offCodec>>

CodecNext ==
    \/ WriteFrameCall
    \/ ReadBack
    \/ ReadTextCall
    \/ RTReadFrame
    \/ RTWritePong

CodecSpec == CodecInit /\ [][CodecNext]_vars

(***************************************************************************)
(* dialWS and Close on their own: one call of dialWS against a server that *)
(* answers as it likes, or a wsConn literal, and then Close calls on what  *)
(* came back.  The watch and the codec do not move here.                   *)
(***************************************************************************)
offSess == <<watchVars, codecVars, authVars>>

\* how many header lines the server sends
MaxHeaders == 2
\* how many times Close is called on one session
MaxCloses == 2

\* status lines a server may answer with (the line's end left out)
StatusLines ==
    { <<"H", "T", "T", "P", "/", "1", ".", "1", " ", "1", "0", "1", " ", "S", "w", "i", "t", "c", "h", "i", "n", "g", " ", "P", "r", "o", "t", "o", "c", "o", "l", "s">>,
      <<"H", "T", "T", "P", "/", "1", ".", "1", " ", "2", "0", "0", " ", "O", "K">>,
      <<"H", "T", "T", "P", "/", "1", ".", "1", " ", "4", "0", "0", " ", "B", "a", "d", " ", "R", "e", "q", "u", "e", "s", "t">>,
      <<"H", "T", "T", "P", "/", "1", ".", "1", " ", "5", "0", "3", " ", "N", "o", " ", "1", "0", "1", " ", "u", "p", "g", "r", "a", "d", "e">>,
      <<"H", "T", "T", "P", "/", "1", ".", "1", " ", "1", "0", "1", "1", " ", "O", "d", "d">> }

Header(name, value) == [name |-> name, value |-> value, colon |-> TRUE]
AcceptValues == {wsAccept(k) : k \in Keys} \cup {"", "bogus"}
HeaderLines ==
    {Header(n, v) : n \in {"Sec-WebSocket-Accept", " SEC-WEBSOCKET-ACCEPT "}, v \in AcceptValues}
    \cup {Header("Upgrade", "websocket"),
          [name |-> "no colon here", value |-> "", colon |-> FALSE]}

SessInit == Init /\ taskToken = "tok"

\* A slip: a failure path that returns without closing.
DialFailLeak(e) ==
    /\ dConn' = dConn
    /\ dErr' = e
    /\ sess' = "nil"
    /\ dPc' = "returned"

\* 275-276, 283-284, 297-298, 304-305, 308-309, 316-317, 331-332:
\* conn.Close(); return nil, err
DialFail(e) ==
    /\ dConn' = "closed"
    /\ dErr' = e
    /\ sess' = "nil"
    /\ dPc' = "returned"

\* 253-256: url.Parse
DialParse ==
    /\ dPc = "idle"
    /\ \/ /\ \E sch \in {"ws", "wss"} : dScheme' = sch
          /\ dPc' = "tcp"
          /\ UNCHANGED <<dErr, sess>>
       \/ /\ dErr' = "parse"
          /\ sess' = "nil"
          /\ dPc' = "returned"
          /\ UNCHANGED dScheme
    /\ UNCHANGED <<dKey, dStatus, dHeaders, dConn, closeCalls, closeRet, offSess>>

\* 266-271: dialer.DialContext
DialTCP ==
    /\ dPc = "tcp"
    /\ \/ /\ dConn' = "open"
          /\ dPc' = IF dScheme = "wss" THEN "tls" ELSE "key"
          /\ UNCHANGED <<dErr, sess>>
       \/ /\ dErr' = "dial"
          /\ sess' = "nil"
          /\ dPc' = "returned"
          /\ UNCHANGED dConn
    /\ UNCHANGED <<dScheme, dKey, dStatus, dHeaders, closeCalls, closeRet, offSess>>

\* 272-279: tlsConn.Handshake
DialTLS ==
    /\ dPc = "tls"
    /\ \/ dPc' = "key" /\ UNCHANGED <<dConn, dErr, sess>>
       \/ DialFail("tls handshake")
    /\ UNCHANGED <<dScheme, dKey, dStatus, dHeaders, closeCalls, closeRet, offSess>>

\* 281-285: wsKey
DialKey ==
    /\ dPc = "key"
    /\ \/ /\ \E k \in Keys : dKey' = k
          /\ dPc' = "write"
          /\ UNCHANGED <<dConn, dErr, sess>>
       \/ DialFail("rand") /\ UNCHANGED dKey
    /\ UNCHANGED <<dScheme, dStatus, dHeaders, closeCalls, closeRet, offSess>>

\* 295-299: the upgrade request
DialWrite ==
    /\ dPc = "write"
    /\ \/ dPc' = "status" /\ UNCHANGED <<dConn, dErr, sess>>
       \/ DialFail("write")
    /\ UNCHANGED <<dScheme, dKey, dStatus, dHeaders, closeCalls, closeRet, offSess>>

\* 301-310: the status line
DialStatus ==
    /\ dPc = "status"
    /\ \/ DialFail("read status") /\ UNCHANGED dStatus
       \/ \E line \in StatusLines :
            /\ dStatus' = line
            /\ IF StatusAccepted(line)
                 THEN dPc' = "headers" /\ UNCHANGED <<dConn, dErr, sess>>
                 ELSE DialFail("websocket handshake failed")
    /\ UNCHANGED <<dScheme, dKey, dHeaders, closeCalls, closeRet, offSess>>

\* 312-327: the header lines up to the empty one, or a read error on the way
DialHeaders ==
    /\ dPc = "headers"
    /\ \E hs \in SeqsUpTo(HeaderLines, MaxHeaders) :
         /\ dHeaders' = hs
         /\ \/ dPc' = "accept" /\ UNCHANGED <<dConn, dErr, sess>>
            \/ DialFail("read header")
    /\ UNCHANGED <<dScheme, dKey, dStatus, closeCalls, closeRet, offSess>>

\* 329-335: the accept check and the return
DialAccept ==
    /\ dPc = "accept"
    /\ IF AcceptRefused(dHeaders, dKey)
         THEN DialFail("websocket accept key mismatch")
         ELSE /\ sess' = "conn"
              /\ dPc' = "returned"
              /\ UNCHANGED <<dConn, dErr>>
    /\ UNCHANGED <<dScheme, dKey, dStatus, dHeaders, closeCalls, closeRet, offSess>>

\* a wsConn with no connection in it: &wsConn{}
EmptySession ==
    /\ dPc = "idle"
    /\ dPc' = "literal"
    /\ sess' = "noconn"
    /\ UNCHANGED <<dScheme, dKey, dStatus, dHeaders, dConn, dErr, closeCalls, closeRet, offSess>>

\* A slip: only the nil receiver is checked.
HasConnUnchecked(w) == w # "nil"

\* 352: !(w == nil || w.conn == nil)
HasConn(w) == w = "conn"

\* 351-356: Close.  What conn.Close returns is the connection's business:
\* nil or an error, on the first call and on later ones.
Close ==
    /\ dPc \in {"returned", "literal"}
    /\ closeCalls < MaxCloses
    /\ closeCalls' = closeCalls + 1
    /\ IF HasConn(sess)
         THEN IF dConn = "none"
                THEN closeRet' = "panic" /\ UNCHANGED dConn
                ELSE /\ dConn' = "closed"
                     /\ \E e \in {"nil", "close error"} : closeRet' = e
         ELSE closeRet' = "nil" /\ UNCHANGED dConn
    /\ UNCHANGED <<dPc, dScheme, dKey, dStatus, dHeaders, dErr, sess, offSess>>

SessNext ==
    \/ DialParse
    \/ DialTCP
    \/ DialTLS
    \/ DialKey
    \/ DialWrite
    \/ DialStatus
    \/ DialHeaders
    \/ DialAccept
    \/ EmptySession
    \/ Close

SessionSpec == SessInit /\ [][SessNext]_vars

(***************************************************************************)
(* The auth service on its own: credentials are saved and removed, and     *)
(* BuildHeaders is called for a project or for none.  A change of the      *)
(* store forgets the last call, whose result belonged to the store before. *)
(***************************************************************************)
offAuth == <<watchVars, codecVars, sessVars>>

AuthInit == Init /\ taskToken = "tok"

\* 130-136: SaveBearerToken; a blank token is refused
SaveBearerToken ==
    /\ \E token \in TokenValues :
         /\ TrimSpace(token) # ""
         /\ token # aBearer
         /\ aBearer' = token
    /\ aProject' = NoProject
    /\ aResult' = NoResult
    /\ UNCHANGED <<aSecrets, offAuth>>

\* 147-153: Logout
Logout ==
    /\ aBearer # ""
    /\ aBearer' = ""
    /\ aProject' = NoProject
    /\ aResult' = NoResult
    /\ UNCHANGED <<aSecrets, offAuth>>

\* 156-161: SaveProjectSecret; a blank key or a blank secret is refused
SaveProjectSecret ==
    /\ \E apiKey \in APIKeys, apiSecret \in SecretValues :
         /\ TrimSpace(apiKey) # "" /\ TrimSpace(apiSecret) # ""
         /\ aSecrets[apiKey] # apiSecret
         /\ aSecrets' = [aSecrets EXCEPT ![apiKey] = apiSecret]
    /\ aProject' = NoProject
    /\ aResult' = NoResult
    /\ UNCHANGED <<aBearer, offAuth>>

\* 164-172: DeleteProjectSecret
DeleteProjectSecret ==
    /\ \E apiKey \in APIKeys :
         /\ TrimSpace(apiKey) # ""
         /\ aSecrets[apiKey] # ""
         /\ aSecrets' = [aSecrets EXCEPT ![apiKey] = ""]
    /\ aProject' = NoProject
    /\ aResult' = NoResult
    /\ UNCHANGED <<aBearer, offAuth>>

\* 181: BuildHeaders(project), with LoadBearerToken (138-144) first
BuildHeadersCall ==
    /\ \E project \in Projects :
         /\ aProject' = project
         /\ aResult' = BuildHeaders(project, aBearer, aSecrets)
    /\ UNCHANGED <<aBearer, aSecrets, offAuth>>

AuthNext ==
    \/ SaveBearerToken
    \/ Logout
    \/ SaveProjectSecret
    \/ DeleteProjectSecret
    \/ BuildHeadersCall

AuthSpec == AuthInit /\ [][AuthNext]_vars

(***************************************************************************)
(* Properties.                                                             *)
(***************************************************************************)
TerminalFour == {"task_postprocess_end", "task_cancel", "task_end", "task_error_full"}
TerminalThree == {"task_postprocess_end", "task_cancel", "task_error_full"}

Warnings == {i \in DOMAIN events : events[i].source = "system"}

\* The stream goroutine has left by a failure (handshake, register, read).
StreamFailed == wsPc \in {"sendErr", "exited"} /\ wsErr # NoErr

\* C1: for a non-empty token, a WatchTask that has returned returned either
\* a Task and a nil error, or no Task and the context's error; never both,
\* never neither.
C1_ExactlyOneOutcome ==
    (~IsBlank(taskToken) /\ coordPc = "returned") =>
        \/ ret.task # NoTask /\ ret.err = NoErr
        \/ ret.task = NoTask /\ ret.err = CtxErr

\* The cancellation error was returned while a delivered Task sat unread.
C1_Witness ==
    /\ coordPc = "returned"
    /\ ret = [task |-> NoTask, err |-> CtxErr]
    /\ Len(finalTaskCh) = 1

\* C2: at most one Task is ever written to finalTaskCh, and no signalFinal
\* call blocks: a caller at the send finds room in the channel, and a caller
\* waiting at the gate waits only for the other caller, who is at its send.
C2_SingleDelivery ==
    /\ finalSent <= 1
    /\ pollPc = "sendFinal" => Len(finalTaskCh) < FinalChCap
    /\ wsPc = "sendFinal" => Len(finalTaskCh) < FinalChCap
    /\ (pollPc = "once" /\ OnceBlocked(onceDone, onceM)) => wsPc = "sendFinal"
    /\ (wsPc = "once" /\ OnceBlocked(onceDone, onceM)) => pollPc = "sendFinal"

\* Both producers detected the terminal state: one is inside the gate, the
\* other arrives at it.
C2_Witness == pollPc = "once" /\ wsPc = "sendFinal"

C4_TaskEndNotTerminal ==
    lastCheck # NoCheck => (lastCheck.terminal <=> lastCheck.status \in TerminalThree)

\* C5: if the context is never cancelled, then once the stream goroutine has
\* failed and the poller has fetched a terminal task, WatchTask eventually
\* returns that task with a nil error.
C5_PollingBackstop ==
    ([]~ctxDone) =>
        ((StreamFailed /\ pollSawTerminal) ~>
            (coordPc = "returned" /\ ret = [task |-> pollTask, err |-> NoErr]))

C5_Witness ==
    /\ StreamFailed
    /\ wsErr = ConnectErr
    /\ pollSawTerminal
    /\ ~ctxDone
    /\ coordPc = "returned"
    /\ ret = [task |-> pollTask, err |-> NoErr]

\* C6: the poller leaves its loop only from the select with the context
\* done, or through signalFinal after it fetched a terminal task; a failed
\* query leads to the errCh send and from there back to the select.
C6_PollerLeavesOnlyOn ==
    /\ [][(pollPc # "exited" /\ pollPc' = "exited") =>
            \/ pollPc = "select" /\ ctxDone
            \/ pollPc \in {"once", "sendFinal"} /\ pollSawTerminal]_vars
    /\ [][(pollPc = "sendErr" /\ pollPc' # "sendErr") => pollPc' = "select"]_vars

\* The poller is back at its select after a failed query, with the stream
\* goroutine gone by a failure.
C6_Witness ==
    /\ coordPc = "running"
    /\ wsPc = "exited"
    /\ StreamFailed
    /\ pollPc = "select"
    /\ \E i \in DOMAIN events : events[i].text = QueryErr

\* C7: when the context is cancelled with the stream goroutine waiting in
\* ReadText and the poller waiting in its select, WatchTask returns the
\* context's error and both goroutines eventually exit, the session closed;
\* the stream goroutine sees the cancellation at its next loop iteration,
\* so a ReadText that returns after it leads to no further ReadText or
\* Detail call.
C7_CancelStopsProducers ==
    /\ cancelledIdle ~>
        /\ coordPc = "returned"
        /\ ret = [task |-> NoTask, err |-> CtxErr]
        /\ pollPc = "exited"
        /\ wsPc = "exited"
        /\ ~connOpen
    /\ [][(cancelledIdle /\ wsPc = "read" /\ frames' = frames + 1) =>
            wsPc' \notin {"read", "query"}]_vars

\* C8: after WatchTask has returned no producer is stuck at a channel send:
\* a producer at a send finds room in the channel.
C8_NoSendBlocksAfterReturn ==
    coordPc = "returned" =>
        /\ pollPc = "sendErr" => Len(errCh) < ErrChCap
        /\ wsPc = "sendErr" => Len(errCh) < ErrChCap
        /\ pollPc = "sendFinal" => Len(finalTaskCh) < FinalChCap
        /\ wsPc = "sendFinal" => Len(finalTaskCh) < FinalChCap

\* C9: a receive from errCh leaves WatchTask running and hands the observer
\* exactly one system/warning event carrying that error; for a non-empty
\* token the only error WatchTask returns is the context's.
C9_ErrorsAreWarnings ==
    /\ [][Len(errCh') < Len(errCh) =>
            /\ coordPc' = "running"
            /\ ret' = NoRet
            /\ events' = Append(events, Event("system", "warning", Head(errCh), "coord"))]_vars
    /\ []((~IsBlank(taskToken) /\ coordPc = "returned") => ret.err \in {NoErr, CtxErr})

\* Two errors were forwarded as warnings and the watch is still running.
C9_Witness == coordPc = "running" /\ Cardinality(Warnings) = 2

\* C10: at the moment WatchTask returns a Task, no producer-local error is
\* left unread in errCh or waiting to be sent to it: each one has reached
\* the observer as a warning.
C10_NoErrorDropped ==
    [][(coordPc = "running" /\ coordPc' = "returned" /\ ret'.task # NoTask) =>
            /\ Len(errCh) = 0
            /\ pollPc # "sendErr"
            /\ wsPc # "sendErr"]_vars

\* C11: a failed status query is surfaced and the loop goes on.  In the
\* poller it leads to the errCh send and from there back to the select; in
\* the stream goroutine, after a terminal-type message, it puts the error
\* on its way to errCh as well.
C11_QueryFailuresSurface ==
    /\ [][(pollPc = "query" /\ pollPc' # "query" /\ pollFetch' = "err") =>
            pollPc' = "sendErr"]_vars
    /\ [][(pollPc = "sendErr" /\ pollPc' # "sendErr") =>
            (errCh' = Append(errCh, QueryErr) /\ pollPc' = "select")]_vars
    /\ [][(wsPc = "query" /\ wsPc' # "query" /\ wsFetch' = "err") =>
            (wsPc' = "sendErr" \/ Len(errCh') = Len(errCh) + 1)]_vars

\* C12: a ReadText call that ends with a frame above the size ceiling, an
\* I/O failure or a text that is not JSON ends the stream goroutine with the
\* read error on its way to errCh, and so does a failed subscribe write; the
\* poller is not touched.
C12_ProtocolErrorsEndStream ==
    /\ [][(wsPc = "read" /\ frames' = frames + 1
             /\ lastRead' \in {"io", "toolarge", "badjson"}) =>
            (wsPc' = "sendErr" /\ wsErr' = ReadErr /\ pollPc' = pollPc)]_vars
    /\ [][(wsPc = "register" /\ wsPc' \notin {"register", "read"}) =>
            (wsPc' = "sendErr" /\ wsErr' = RegisterErr /\ pollPc' = pollPc)]_vars
    /\ [][(wsPc = "sendErr" /\ wsPc' # "sendErr") =>
            (errCh' = Append(errCh, wsErr) /\ wsPc' = "exited" /\ pollPc' = pollPc)]_vars

\* C13: the stream goroutine calls dialWS at most once in a watch.  A failed
\* dial leads to one errCh send of the connect error and to the exit; the
\* send of any error is followed by the exit; and an exited stream goroutine
\* stays exited.
C13_OneConnectionAttempt ==
    /\ [](dials <= 1)
    /\ [][(wsPc = "dial" /\ wsPc' # "dial" /\ ~connOpen') =>
            (wsPc' = "sendErr" /\ wsErr' = ConnectErr)]_vars
    /\ [][(wsPc = "sendErr" /\ wsPc' # "sendErr") =>
            (errCh' = Append(errCh, wsErr) /\ wsPc' = "exited")]_vars
    /\ [][wsPc = "exited" => wsPc' = "exited"]_vars

\* The handshake failed, its warning reached the observer, and the poller
\* polls on.
C13_Witness ==
    /\ wsPc = "exited"
    /\ wsErr = ConnectErr
    /\ dials = 1
    /\ \E i \in DOMAIN events : events[i].text = ConnectErr
    /\ pollPc = "query"

(***************************************************************************)
(* Properties of the frame codec and of ReadText (CodecSpec).              *)
(***************************************************************************)
\* readFrame has just taken a frame of this opcode off the connection
ReadsFrame(op) == rtPc = "loop" /\ inbound' = Tail(inbound) /\ rOut'.err = "nil" /\ rOut'.opcode = op

\* C14: a ping read by ReadText is not returned; the next thing ReadText
\* does, before it reads another frame, is to write one pong frame carrying
\* the ping's payload (or to return the error of that write).
C14_PingAnsweredInline ==
    /\ [][ReadsFrame(9) => (rtPc' = "pong" /\ rtRet' = NoData)]_vars
    /\ [][(rtPc = "pong" /\ rtPc' # "pong") =>
            /\ inbound' = inbound
            /\ \/ /\ rtPc' = "loop"
                  /\ rtRet' = NoData
                  /\ Len(outbound') = Len(outbound) + 1
                  /\ SubSeq(outbound', 1, Len(outbound)) = outbound
                  /\ LET f == readFrame(outbound'[Len(outbound')])
                     IN  f.err = "nil" /\ f.opcode = 10 /\ f.payload = rOut.payload
               \/ /\ rtPc' = "returned"
                  /\ rtRet'.err = "write"
                  /\ outbound' = outbound]_vars
    /\ [](rtPc = "returned" /\ rtRet.err = "nil" => rOut.opcode # 9)

\* a ping with a payload was answered and the text frame behind it returned
C14_Witness ==
    /\ rtPc = "returned"
    /\ rtRet = [data |-> Bytes(5, <<104, 105, 33, 10>>), err |-> "nil"]
    /\ Len(outbound) = 1
    /\ readFrame(outbound[1]).opcode = 10
    /\ readFrame(outbound[1]).payload = Bytes(126, <<123, 34, 34, 125>>)

\* C15: ReadText returns a payload only for a text frame (0x1), and then
\* that frame's payload; a close frame (0x8) makes it return end-of-stream;
\* a pong (0xA) or an opcode it does not know is dropped and the loop goes on.
C15_OnlyTextReturned ==
    /\ [](rtPc = "returned" /\ rtRet.err = "nil" =>
            rOut.err = "nil" /\ rOut.opcode = 1 /\ rtRet.data = rOut.payload)
    /\ [][ReadsFrame(1) =>
            (rtPc' = "returned" /\ rtRet' = [data |-> rOut'.payload, err |-> "nil"])]_vars
    /\ [][ReadsFrame(8) =>
            (rtPc' = "returned" /\ rtRet' = [data |-> NoBytes, err |-> "EOF"])]_vars
    /\ [][(\E op \in Opcodes \ {1, 8, 9} : ReadsFrame(op)) =>
            (rtPc' = "loop" /\ rtRet' = NoData /\ outbound' = outbound)]_vars

\* a binary frame was dropped and the loop is waiting for the next frame
C15_Witness ==
    /\ rtPc = "loop"
    /\ rOut.err = "nil"
    /\ rOut.opcode = 2
    /\ rOut.payload.len = 5
    /\ Len(inbound) = 1
    /\ outbound = <<>>
    /\ rtRet = NoData

RoundTrips == rOut.err = "nil" /\ rOut.opcode = wIn.opcode /\ rOut.payload = wIn.payload

\* C16 as stated: readFrame gives back the opcode and payload of every frame
\* writeFrame wrote, whatever the payload.
C16_RoundTripEveryPayload == cPc = "decoded" => RoundTrips

\* C16, amended: readFrame gives back the opcode and payload of every frame
\* writeFrame wrote whose payload is no longer than readFrame's 32 MiB
\* ceiling, for every opcode, length tier and mask.
C16_RoundTripUpToCeiling ==
    (cPc = "decoded" /\ wIn.payload.len <= MaxPayload) => RoundTrips

\* a 65536-byte payload under a mask with high bits came back
C16_Witness ==
    /\ cPc = "decoded"
    /\ wIn = [opcode |-> 1, payload |-> Bytes(65536, <<255, 0, 170, 85>>),
              mask |-> <<255, 128, 7, 90>>]
    /\ wire.body # wIn.payload
    /\ RoundTrips

\* the header given to readFrame declares a 64-bit length
Declares64 == rOut # NoFrame /\ Len(wire.head) >= 10 /\ wire.head[2] % 128 = 127
\* the declared length, as the unsigned big-endian number on the wire
DeclaredExt == SubSeq(wire.head, 3, 10)
Above(a, b) == \E i \in 1..8 : a[i] > b[i] /\ \A j \in 1..(i - 1) : a[j] = b[j]
HeaderComplete == Len(wire.head) >= (IF wire.head[2] >= 128 THEN 14 ELSE 10)

\* C17: a header declaring more than 32 MiB, the lengths of 2^63 and more
\* included, makes readFrame return an error with no payload buffer
\* allocated and no payload byte read; a header declaring exactly 32 MiB is
\* accepted: the buffer is allocated and a payload that is there is returned.
C17_CeilingBeforeAllocation ==
    Declares64 =>
        /\ Above(DeclaredExt, Ext32MiB) =>
              (rOut.err \notin {"nil", "none"} /\ rOut.alloc = 0 /\ rOut.read = 0)
        /\ (DeclaredExt = Ext32MiB /\ HeaderComplete) =>
              /\ rOut.alloc = MaxPayload
              /\ rOut.err # "websocket payload too large"
              /\ wire.body.len >= MaxPayload =>
                   (rOut.err = "nil" /\ rOut.payload.len = MaxPayload)

\* a header declaring 2^63 bytes was refused with payload bytes waiting
C17_Witness ==
    /\ Declares64
    /\ DeclaredExt = <<128, 0, 0, 0, 0, 0, 0, 0>>
    /\ wire.body.len = 5
    /\ rOut.err = "websocket payload too large"
    /\ rtRet.err = "websocket payload too large"

(***************************************************************************)
(* Properties of dialWS and Close (SessionSpec).                           *)
(***************************************************************************)
\* C18: Close on a nil session or on a session with no connection returns
\* no error and touches nothing; on a session with a connection, after one
\* Close or after several the connection is closed; no call panics.
C18_CloseIdempotent ==
    /\ [][(closeCalls' = closeCalls + 1 /\ sess \in {"nil", "noconn"}) =>
            (closeRet' = "nil" /\ dConn' = dConn)]_vars
    /\ [][(closeCalls' = closeCalls + 1 /\ closeCalls >= 1) => dConn' = dConn]_vars
    /\ []((sess = "conn" /\ closeCalls >= 1) => dConn = "closed")
    /\ [](closeRet # "panic")

\* a session dialWS returned was closed twice
C18_Witness ==
    /\ sess = "conn"
    /\ dErr = "nil"
    /\ closeCalls = 2
    /\ dConn = "closed"

\* the status code field of a status line "HTTP/1.1 nnn ..."
StatusCodeIs101(line) ==
    /\ SubSeq(line, 10, 12) = <<"1", "0", "1">>
    /\ (Len(line) = 12 \/ line[13] = " ")
\* the server sent a Sec-WebSocket-Accept header
AcceptPresent(hs) ==
    \E i \in DOMAIN hs : hs[i].colon /\ HeaderKey(hs[i].name) = "sec-websocket-accept"

\* C19: dialWS returns a session only if the status code was 101 and the
\* accept header, when sent, equals wsAccept of the key of the request; any
\* other status code fails the handshake; an accept header that was sent
\* and differs fails with the accept-mismatch error.
C19_SessionOnlyAfterValidHandshake ==
    /\ sess = "conn" =>
          /\ StatusCodeIs101(dStatus)
          /\ AcceptPresent(dHeaders) =>
                HeaderValue(dHeaders, "sec-websocket-accept") = wsAccept(dKey)
    /\ (dStatus # <<>> /\ ~StatusCodeIs101(dStatus)) =>
          (dPc = "returned" /\ dErr = "websocket handshake failed")
    /\ (/\ dPc = "returned"
        /\ dErr # "read header"
        /\ AcceptPresent(dHeaders)
        /\ HeaderValue(dHeaders, "sec-websocket-accept") # wsAccept(dKey)) =>
          dErr = "websocket accept key mismatch"

\* C20: when dialWS returns an error after the TCP connection was opened,
\* the connection is closed and the session returned is nil; a session is
\* returned exactly when there is no error, and then the connection is open.
C20_FailureClosesConnection ==
    (dPc = "returned" /\ closeCalls = 0) =>
        /\ (dErr # "nil" /\ dConn # "none") => dConn = "closed"
        /\ dErr # "nil" => sess = "nil"
        /\ dErr = "nil" => (sess = "conn" /\ dConn = "open")

\* the accept check refused a TLS connection: closed, no session
C20_Witness ==
    /\ dPc = "returned"
    /\ closeCalls = 0
    /\ dScheme = "wss"
    /\ dErr = "websocket accept key mismatch"
    /\ dConn = "closed"
    /\ sess = "nil"

(***************************************************************************)
(* Properties of the observer's view of the watch (Spec).                  *)
(***************************************************************************)
\* the producer an event the observer received came from: a warning is the
\* poller's when it carries a failed query, the stream's otherwise
Origin(e) ==
    IF e.source = "poll" THEN "poll"
    ELSE IF e.source = "ws" THEN "ws"
    ELSE IF e.text = QueryErr THEN "poll" ELSE "ws"

\* what the observer has received from producer p, in the order received
Received(p) == SelectSeq(events, LAMBDA e : Origin(e) = p)

\* a can be had from b by leaving elements out, the order kept
RECURSIVE IsSubseq(_, _)
IsSubseq(a, b) ==
    IF a = <<>> THEN TRUE
    ELSE IF b = <<>> THEN FALSE
    ELSE IF Head(a) = Head(b) THEN IsSubseq(Tail(a), Tail(b))
    ELSE IsSubseq(a, Tail(b))

\* C21: what the observer has received from a producer is, in that order,
\* part of what the producer emitted: no event of a producer, warnings
\* included, reaches the observer before one the producer emitted earlier.
C21_PerProducerOrder ==
    \A p \in {"poll", "ws"} : IsSubseq(Received(p), emitted[p])

\* C22: every onEvent invocation of a watch is made by the coordinator, the
\* goroutine that called WatchTask, so that no two are in progress at once.
C22_ObserverCalledByCoordinator ==
    \A i \in DOMAIN events : events[i].by = "coord"

\* C29: once WatchTask has returned, onEvent is not invoked again.
C29_NoEventAfterReturn ==
    [][coordPc = "returned" => events' = events]_vars

\* C28: a task WatchTask returns has a status isTerminal accepts, whichever
\* goroutine delivered it.
C28_ReturnedTaskIsTerminal ==
    (coordPc = "returned" /\ ret.task # NoTask) => isTerminal(ret.task)

\* C24: a message of terminal type makes the stream goroutine ask for the
\* task once (and a message of another type not at all); a row coming back
\* takes it into signalFinal with that row and from there out of the
\* goroutine; an error or an empty list takes it back to ReadText with
\* nothing delivered and nothing sent to errCh.
C24_TerminalMessageFetchesOnce ==
    /\ [][(wsPc = "read" /\ lastRead' = "msg" /\ frames' = frames + 1) =>
            wsPc' = (IF events'[Len(events')].type \in TerminalFour THEN "query" ELSE "read")]_vars
    /\ [][(wsPc # "query" /\ wsPc' = "query") => (wsPc = "read" /\ frames' = frames + 1)]_vars
    /\ [][(wsPc = "query" /\ wsFetch' # wsFetch) => wsPc' # "query"]_vars
    /\ [][(wsPc = "query" /\ wsPc' # "query") =>
            /\ wsFetch' \in {"err", "empty", "task"}
            /\ wsFetch' = "task" => (wsPc' = "once" /\ wsTask' # NoTask)
            /\ wsFetch' # "task" =>
                 (wsPc' = "read" /\ finalTaskCh' = finalTaskCh /\ errCh' = errCh
                  /\ onceDone' = onceDone /\ wsTask' = wsTask)]_vars
    /\ [][(wsPc = "once" /\ wsPc' # "once") => wsPc' \in {"sendFinal", "exited"}]_vars
    /\ [][(wsPc = "sendFinal" /\ wsPc' # "sendFinal") =>
            (wsPc' = "exited" /\ finalTaskCh' = Append(finalTaskCh, wsTask))]_vars

\* the query after a terminal message failed and the goroutine reads on
C24_Witness ==
    /\ wsPc = "read"
    /\ frames = 1
    /\ lastRead = "msg"
    /\ wsFetch = "err"
    /\ finalSent = 0
    /\ errCh = <<>>
    /\ events = <<Event("ws", "task_end", "", "ws")>>

\* C25: a poller's query that succeeds with no row emits nothing and the
\* poller waits for the next tick; with a row, one poll event carrying the
\* row's status is emitted before anything is done about delivery, and then
\* the poller goes into signalFinal and out of the goroutine exactly when
\* that status is terminal, and back to wait for the next tick otherwise.
C25_PollTickOutcome ==
    /\ [][(pollPc = "query" /\ pollPc' # "query" /\ pollFetch' = "empty") =>
            (events' = events /\ pollPc' = "select" /\ finalTaskCh' = finalTaskCh
             /\ onceDone' = onceDone /\ onceM' = onceM)]_vars
    /\ [][(pollPc = "query" /\ pollPc' # "query" /\ pollFetch' = "task") =>
            /\ pollTask' # NoTask
            /\ events' = Append(events, [source |-> "poll", type |-> pollTask',
                                         text |-> "polled status", by |-> "poll"])
            /\ finalTaskCh' = finalTaskCh /\ onceDone' = onceDone /\ onceM' = onceM
            /\ pollPc' = (IF pollTask' \in TerminalFour THEN "once" ELSE "select")]_vars
    /\ [][(pollPc # "once" /\ pollPc' = "once") => (pollPc = "query" /\ pollFetch' = "task")]_vars
    /\ [][(pollPc = "once" /\ pollPc' # "once") => pollPc' \in {"sendFinal", "exited"}]_vars
    /\ [][(pollPc = "sendFinal" /\ pollPc' # "sendFinal") =>
            (pollPc' = "exited" /\ finalTaskCh' = Append(finalTaskCh, pollTask))]_vars

\* a first tick found a running task, a second a finished one, which the
\* poller delivered before it left
C25_Witness ==
    /\ pollPc = "exited"
    /\ ticks = 2
    /\ finalBy = "poll"
    /\ SelectSeq(events, LAMBDA e : e.source = "poll")
         = <<Event("poll", "task_start", "polled status", "poll"),
             Event("poll", "task_cancel", "polled status", "poll")>>

\* the subscribe message for this watch
Subscribe == [type |-> "task_info", tasktoken |-> taskToken]

\* C26: the stream goroutine writes one message to the socket, the subscribe
\* message with the task token, after the dial succeeded and before its
\* first ReadText; it writes nothing else; when that write fails it reads
\* nothing, sends one register error and is over.
C26_OneSubscribe ==
    /\ [](Len(wsSent) <= 1)
    /\ [](wsPc \in {"read", "query", "once", "sendFinal"} => wsSent = <<Subscribe>>)
    /\ [][wsSent' # wsSent =>
            (wsPc = "register" /\ connOpen /\ frames = 0 /\ wsSent = <<>> /\ frames' = 0)]_vars
    /\ [][frames' # frames => wsSent = <<Subscribe>>]_vars
    /\ [](wsErr = RegisterErr => (frames = 0 /\ wsSent = <<>> /\ wsPc \in {"sendErr", "exited"}))
    /\ [][(wsErr = RegisterErr /\ wsPc = "sendErr" /\ wsPc' # "sendErr") =>
            (errCh' = Append(errCh, RegisterErr) /\ wsPc' = "exited")]_vars

\* subscribed, then one frame read
C26_Witness ==
    /\ wsSent = <<[type |-> "task_info", tasktoken |-> "tok"]>>
    /\ wsPc = "read"
    /\ frames = 1
    /\ lastRead = "msg"

\* C30: WatchTask called with an empty or all-blank token returns the
\* token error as its first step: neither goroutine is started, no query is
\* made, no connection is dialled and the observer is never called.
C30_BlankTokenRejected ==
    /\ [](taskToken \in {"", " "} =>
            /\ pollPc = "idle" /\ wsPc = "idle"
            /\ ticks = 0 /\ pollFetch = "none" /\ wsFetch = "none"
            /\ dials = 0 /\ ~connOpen /\ wsSent = <<>>
            /\ events = <<>>
            /\ coordPc \in {"start", "returned"}
            /\ coordPc = "returned" => ret = [task |-> NoTask, err |-> TokenErr])
    /\ [](taskToken \notin {"", " "} => ret.err # TokenErr)

\* the call with a blank token has returned its error
C30_Witness ==
    /\ taskToken = " "
    /\ coordPc = "returned"
    /\ ret = [task |-> "nil", err |-> "task token is required for watch"]
    /\ events = <<>>

(***************************************************************************)
(* Properties of BuildHeaders (AuthSpec).                                  *)
(***************************************************************************)
\* the five things the choice is said to depend on
ProjectPresent == ~aProject.nil
HintSaid ==
    IF aProject.AuthMethodHint \in {"signature", " Signature "} THEN "signature"
    ELSE IF aProject.AuthMethodHint = "apikey-only" THEN "apikey-only"
    ELSE IF aProject.AuthMethodHint \in {"", "unknown"} THEN "unknown"
    ELSE "other"
SecretStored == aSecrets[aProject.APIKey] \notin {"", " "}
TokenStored == aBearer # ""
KeyNonEmpty == aProject.APIKey \notin {"", " "}

\* what the call did: the mode of the headers it returned, or "fail"
ModeChosen == IF aResult.err = "nil" THEN aResult.mode ELSE "fail"
Called == aResult # NoResult

FirstAvailable ==
    IF SecretStored THEN "signature"
    ELSE IF TokenStored THEN "bearer"
    ELSE IF KeyNonEmpty THEN "apikey-only"
    ELSE "fail"

\* C23 as stated: no project: bearer when a token is stored, else failure;
\* hint signature: signature when a secret is stored, else bearer when a
\* token is stored, else failure; hint apikey-only: the API key alone; hint
\* unknown or empty: the first available of signature, bearer, API key,
\* failure when there is none.
C23_ModeAsStated ==
    Called =>
        /\ ~ProjectPresent => ModeChosen = (IF TokenStored THEN "bearer" ELSE "fail")
        /\ (ProjectPresent /\ HintSaid = "signature") =>
              ModeChosen = (IF SecretStored THEN "signature"
                            ELSE IF TokenStored THEN "bearer" ELSE "fail")
        /\ (ProjectPresent /\ HintSaid = "apikey-only") => ModeChosen = "apikey-only"
        /\ (ProjectPresent /\ HintSaid = "unknown") => ModeChosen = FirstAvailable

\* C23, amended: the same, except that hint apikey-only uses the API key
\* alone when the key is not empty and fails when it is.
C23_ModeByInputs ==
    Called =>
        /\ ~ProjectPresent => ModeChosen = (IF TokenStored THEN "bearer" ELSE "fail")
        /\ (ProjectPresent /\ HintSaid = "signature") =>
              ModeChosen = (IF SecretStored THEN "signature"
                            ELSE IF TokenStored THEN "bearer" ELSE "fail")
        /\ (ProjectPresent /\ HintSaid = "apikey-only") =>
              ModeChosen = (IF KeyNonEmpty THEN "apikey-only" ELSE "fail")
        /\ (ProjectPresent /\ HintSaid = "unknown") => ModeChosen = FirstAvailable

\* no hint, a secret and a token both stored: the signature was chosen
C23_Witness ==
    /\ aProject = [APIKey |-> "p-key", AuthMethodHint |-> "", nil |-> FALSE]
    /\ aSecrets["p-key"] = "p-secret"
    /\ aBearer = "bearer-token"
    /\ aResult.err = "nil"
    /\ aResult.mode = "signature"
    /\ <<"x-api-key", "p-key">> \in aResult.headers

\* bit j of byte x
Bit(x, j) == (x \div (2 ^ j)) % 2
\* c is a XOR b, bit by bit
IsXorOf(c, a, b) == \A j \in 0..7 : Bit(c, j) = (IF Bit(a, j) = Bit(b, j) THEN 0 ELSE 1)
\* the big-endian number in bytes from..to of the header
RECURSIVE BigEndian(_, _, _)
BigEndian(h, from, to) ==
    IF to < from THEN 0 ELSE BigEndian(h, from, to - 1) * 256 + h[to]

\* C27: a frame written by writeFrame has FIN set, the opcode in the low
\* four bits, the mask bit set, the length in the tier its size calls for
\* (7-bit literal below 126; 126 and 16 bits up to 65535; 127 and 64 bits
\* from 65536), then the four bytes of the mask key, and as payload the
\* given bytes each XORed with mask[i mod 4].  (Payload byte i is
\* pat[(i % 4) + 1], so the four positions stand for every i.)
C27_FrameLayout ==
    cPc \in {"written", "decoded"} =>
        LET H == wire.head
            n == wIn.payload.len
        IN  /\ H[1] >= 128
            /\ H[1] % 16 = wIn.opcode
            /\ H[2] >= 128
            /\ n < 126 => (Len(H) = 6 /\ H[2] - 128 = n)
            /\ (n >= 126 /\ n <= 65535) =>
                  (Len(H) = 8 /\ H[2] - 128 = 126 /\ BigEndian(H, 3, 4) = n)
            /\ n >= 65536 =>
                  (Len(H) = 14 /\ H[2] - 128 = 127 /\ BigEndian(H, 3, 6) = 0
                   /\ BigEndian(H, 7, 10) = n)
            /\ SubSeq(H, Len(H) - 3, Len(H)) = wIn.mask
            /\ wire.body.len = n
            /\ \A k \in 1..4 : k <= n =>
                  IsXorOf(wire.body.pat[k], wIn.payload.pat[k], wIn.mask[k])

\* a 65536-byte binary frame was written under a mask with high bits
C27_Witness ==
    /\ cPc = "written"
    /\ wIn = [opcode |-> 2, payload |-> Bytes(65536, <<1, 2, 3, 4>>),
              mask |-> <<255, 128, 7, 90>>]
    /\ wire.head = <<130, 255, 0, 0, 0, 0, 0, 1, 0, 0, 255, 128, 7, 90>>
    /\ wire.body = Bytes(65536, <<254, 130, 4, 94>>)

====
